---- MODULE Spec2Model ----
(***************************************************************************)
(* Model of socket.go: the FTP data sockets.  ftpActiveSocket dials out    *)
(* in newActiveSocket; ftpPassiveSocket listens in GoListenAndServe and    *)
(* accepts one peer in a goroutine, which callers of Read/Write wait for   *)
(* through the sync.WaitGroup socket.wg (waitForOpenSocket).               *)
(*                                                                         *)
(* Every step that reads or writes a field shared between the accept       *)
(* goroutine and the callers (socket.conn, socket.err, socket.wg) is an    *)
(* action of its own, so that TLC explores every interleaving of the       *)
(* goroutine with Read, Write, Close, Host and Port.  The reads of         *)
(* socket.conn at lines 145 and 206 are not ordered with the write at line *)
(* 199 by any synchronisation; the model lets them fall before or after    *)
(* the write.                                                              *)
(***************************************************************************)
EXTENDS Integers, Sequences, FiniteSets, TLC

\* ---------------------------------------------------------------- bounds
NumCallers == 2     \* goroutines of the session layer that use the socket
MaxBuf == 1         \* length of the buffer p handed to Read and Write

Callers == 1..NumCallers

\* ------------------------------------------------------------ environment
Hosts == {"127.0.0.1"}
ReqPorts == {0, 2121, 70000}        \* ports the session layer may ask for
EphemeralPorts == {49152}    \* what the OS may assign for port 0
MaxPort == 65535                    \* largest port net.ResolveTCPAddr accepts

NoErr == "nil"
AcceptErrors == {"i/o timeout", "accept error"}

\* ------------------------------------------------- strings (strconv, net)
Digits == <<"0", "1", "2", "3", "4", "5", "6", "7", "8", "9">>

RECURSIVE Itoa(_)
Itoa(n) ==
    IF n < 10 THEN <<Digits[n + 1]>>
    ELSE Itoa(n \div 10) \o <<Digits[(n % 10) + 1]>>

IsDigit(ch) == \E d \in 1..10 : Digits[d] = ch

DigitVal(ch) == (CHOOSE d \in 1..10 : Digits[d] = ch) - 1

RECURSIVE AtoiVal(_)
AtoiVal(s) ==
    IF s = <<>> THEN 0
    ELSE 10 * AtoiVal(SubSeq(s, 1, Len(s) - 1)) + DigitVal(s[Len(s)])

\* strconv.Atoi: a value and whether the text was a number
Atoi(s) ==
    IF s # <<>> /\ \A i \in 1..Len(s) : IsDigit(s[i])
    THEN [val |-> AtoiVal(s), ok |-> TRUE]
    ELSE [val |-> 0, ok |-> FALSE]

\* strings.Split(s, sep) for a one-character separator
RECURSIVE Split(_, _)
Split(s, sep) ==
    IF \A i \in 1..Len(s) : s[i] # sep THEN <<s>>
    ELSE LET k == CHOOSE i \in 1..Len(s) :
                      s[i] = sep /\ \A j \in 1..(i - 1) : s[j] # sep
         IN  <<SubSeq(s, 1, k - 1)>> \o Split(SubSeq(s, k + 1, Len(s)), sep)

\* net.JoinHostPort with the empty host of line 154
JoinHostPort(host, port) == host \o <<":">> \o port

\* net.ResolveTCPAddr on JoinHostPort("", port): the port after the last colon
\* must be a number of 0..MaxPort
ResolveTCPAddr(addr) ==
    LET parts == Split(addr, ":")
        p == Atoi(parts[Len(parts)])
    IN  IF p.ok /\ p.val <= MaxPort THEN [port |-> p.val, ok |-> TRUE]
        ELSE [port |-> 0, ok |-> FALSE]

\* listener.Addr().String() of a wildcard TCP listener bound to port p
AddrStrings(p) ==
    { <<"[", ":", ":", "]", ":">> \o Itoa(p),
      <<"0", ".", "0", ".", "0", ".", "0", ":">> \o Itoa(p) }

\* ------------------------------------------------------------------ state
VARIABLES
    kind,        \* which constructor the session layer calls: "active" | "passive"
    reqHost,     \* the constructor's host / remote argument
    reqPort,     \* the constructor's port argument
    tlsConfing,  \* newPassiveSocket's tlsConfing argument: "nil" | "cfg"
    ctorPc,      \* where the constructor is: "new" | "serve" | "served" | "done"
    serveErr,    \* what GoListenAndServe returned to newPassiveSocket
    ctorRet,     \* what the constructor returned: [sock, err]
    conn,        \* socket.conn: "nil" | "tcp" | "tls"
    port,        \* socket.port
    host,        \* socket.host
    err,         \* ftpPassiveSocket.err
    wg,          \* the counter of ftpPassiveSocket.wg
    tlsConfig,   \* ftpPassiveSocket.tlsConfig: "nil" | "cfg"
    listener,    \* the listener of GoListenAndServe: [kind, port]
    stream,      \* the one network connection: "none" | "open" | "closed"
    acceptPc,    \* where the accept goroutine is
    aConn,       \* the goroutine's local conn
    aErr,        \* the goroutine's local err
    tasks,       \* how many accept goroutines have been started
    accepts,     \* how many times listener.Accept has been called
    pc,          \* where each caller of the socket is
    call,        \* the method each caller is in: [op, afterClose, early]; afterClose:
                 \* a Close had returned when it was called; early: it was called
                 \* before listener.Accept had returned
    ret,         \* what each caller's last call returned: [n, err, host]
    closed,      \* a Close has returned
    closedEarly, \* a Close has returned before listener.Accept had
    logged,      \* how many times logger.Print has been called
    stdout,      \* the words fmt.Println has printed first on a line
    panicked     \* the process has panicked

inputs == <<kind, reqHost, reqPort, tlsConfing>>
ctor == <<ctorPc, serveErr, ctorRet>>
fields == <<conn, port, host, err, wg, tlsConfig>>
task == <<acceptPc, aConn, aErr, tasks, accepts>>
callers == <<pc, call, ret, closed, closedEarly>>
output == <<logged, stdout>>
vars == <<inputs, ctor, fields, listener, stream, task, callers, output, panicked>>

NoRet == [n |-> 0, err |-> NoErr, host |-> ""]
NoCall == [op |-> "none", afterClose |-> FALSE, early |-> FALSE]

Init ==
    /\ kind \in {"active", "passive"}
    /\ reqHost \in Hosts
    /\ reqPort \in ReqPorts
    /\ tlsConfing \in IF kind = "passive" THEN {"nil", "cfg"} ELSE {"nil"}
    /\ ctorPc = "new"
    /\ serveErr = NoErr
    /\ ctorRet = [sock |-> FALSE, err |-> NoErr]
    /\ conn = "nil"
    /\ port = 0
    /\ host = ""
    /\ err = NoErr
    /\ wg = 0
    /\ tlsConfig = "nil"
    /\ listener = [kind |-> "none", port |-> 0]
    /\ stream = "none"
    /\ acceptPc = "none"
    /\ aConn = "nil"
    /\ aErr = NoErr
    /\ tasks = 0
    /\ accepts = 0
    /\ pc = [c \in Callers |-> "idle"]
    /\ call = [c \in Callers |-> NoCall]
    /\ ret = [c \in Callers |-> NoRet]
    /\ closed = FALSE
    /\ closedEarly = FALSE
    /\ logged = 0
    /\ stdout = {}
    /\ panicked = FALSE

\* ----------------------------------------------------------- constructors

\* newActiveSocket, lines 37-65: log, resolve (the port may be out of range,
\* the host unknown), dial, build the socket
newActiveSocket ==
    /\ kind = "active" /\ ctorPc = "new" /\ ~panicked
    /\ LET raddr == ResolveTCPAddr(JoinHostPort(<<reqHost>>, Itoa(reqPort)))
       IN  \E resolved, dialed \in BOOLEAN :
             IF ~raddr.ok \/ ~resolved
             THEN /\ logged' = logged + 2
                  /\ ctorRet' = [sock |-> FALSE, err |-> "resolve error"]
                  /\ UNCHANGED <<conn, port, host, stream, stdout>>
             ELSE IF ~dialed
             THEN /\ logged' = logged + 2
                  /\ ctorRet' = [sock |-> FALSE, err |-> "dial error"]
                  /\ UNCHANGED <<conn, port, host, stream, stdout>>
             ELSE /\ logged' = logged + 1
                  /\ conn' = "tcp"
                  /\ stream' = "open"
                  /\ host' = reqHost
                  /\ port' = reqPort
                  /\ stdout' = stdout \cup {"open"}
                  /\ ctorRet' = [sock |-> TRUE, err |-> NoErr]
    /\ ctorPc' = "done"
    /\ UNCHANGED <<inputs, serveErr, err, wg, tlsConfig, listener, task, callers, panicked>>

\* newPassiveSocket, lines 100-107: build the socket; the tlsConfing argument
\* is stored nowhere
newPassiveSocket ==
    /\ kind = "passive" /\ ctorPc = "new" /\ ~panicked
    /\ host' = reqHost
    /\ port' = reqPort
    /\ ctorPc' = "serve"
    /\ UNCHANGED <<inputs, serveErr, ctorRet, conn, err, wg, tlsConfig, listener,
                   stream, task, callers, output, panicked>>

\* GoListenAndServe returns the error e at line 158, 167 or 176
ServeFails(e) ==
    /\ logged' = logged + 1
    /\ serveErr' = e
    /\ UNCHANGED <<port, wg, listener, acceptPc, tasks>>

\* GoListenAndServe without line 179: the bound port is not recorded
GoListenAndServe_keepsPort ==
    /\ ctorPc = "serve" /\ ~panicked
    /\ LET laddr == ResolveTCPAddr(JoinHostPort(<<>>, Itoa(port)))
       IN  IF ~laddr.ok THEN ServeFails("resolve error")
           ELSE \E bound \in (IF laddr.port = 0 THEN EphemeralPorts ELSE {laddr.port}),
                   listening \in BOOLEAN :
                  IF ~listening THEN ServeFails("listen error")
                  ELSE \E add \in AddrStrings(bound) :
                         LET parts == Split(add, ":")
                             p == Atoi(parts[Len(parts)])
                         IN  IF ~p.ok THEN ServeFails("atoi error")
                             ELSE /\ UNCHANGED port
                                  /\ wg' = wg + 1
                                  /\ listener' =
                                       [kind |-> IF tlsConfig # "nil" THEN "tls" ELSE "tcp",
                                        port |-> bound]
                                  /\ acceptPc' = "accept"
                                  /\ tasks' = tasks + 1
                                  /\ serveErr' = NoErr
                                  /\ UNCHANGED logged
    /\ ctorPc' = "served"
    /\ UNCHANGED <<inputs, ctorRet, conn, host, err, tlsConfig, stream, aConn, aErr,
                   accepts, callers, stdout, panicked>>

\* GoListenAndServe, lines 153-203: resolve, listen, record the bound port,
\* wg.Add(1), wrap for TLS, start the accept goroutine
GoListenAndServe ==
    /\ ctorPc = "serve" /\ ~panicked
    /\ LET laddr == ResolveTCPAddr(JoinHostPort(<<>>, Itoa(port)))
       IN  IF ~laddr.ok THEN ServeFails("resolve error")
           ELSE \E bound \in (IF laddr.port = 0 THEN EphemeralPorts ELSE {laddr.port}),
                   listening \in BOOLEAN :
                  IF ~listening THEN ServeFails("listen error")
                  ELSE \E add \in AddrStrings(bound) :
                         LET parts == Split(add, ":")
                             p == Atoi(parts[Len(parts)])
                         IN  IF ~p.ok THEN ServeFails("atoi error")
                             ELSE /\ port' = p.val
                                  /\ wg' = wg + 1
                                  /\ listener' =
                                       [kind |-> IF tlsConfig # "nil" THEN "tls" ELSE "tcp",
                                        port |-> bound]
                                  /\ acceptPc' = "accept"
                                  /\ tasks' = tasks + 1
                                  /\ serveErr' = NoErr
                                  /\ UNCHANGED logged
    /\ ctorPc' = "served"
    /\ UNCHANGED <<inputs, ctorRet, conn, host, err, tlsConfig, stream, aConn, aErr,
                   accepts, callers, stdout, panicked>>

\* newPassiveSocketReturn without the test of line 107: the socket is handed
\* back whatever GoListenAndServe returned
newPassiveSocketReturn_ignoresErr ==
    /\ ctorPc = "served" /\ ~panicked
    /\ ctorRet' = [sock |-> TRUE, err |-> NoErr]
    /\ stdout' = stdout \cup {"open"}
    /\ ctorPc' = "done"
    /\ UNCHANGED <<inputs, serveErr, fields, listener, stream, task, callers, logged,
                   panicked>>

\* newPassiveSocketReturn with a socket.wg.Wait() before line 111: the
\* constructor waits for the accept goroutine
newPassiveSocketReturn_waits ==
    /\ ctorPc = "served" /\ ~panicked
    /\ IF serveErr # NoErr
       THEN /\ ctorRet' = [sock |-> FALSE, err |-> serveErr]
            /\ UNCHANGED stdout
       ELSE /\ wg = 0
            /\ ctorRet' = [sock |-> TRUE, err |-> NoErr]
            /\ stdout' = stdout \cup {"open"}
    /\ ctorPc' = "done"
    /\ UNCHANGED <<inputs, serveErr, fields, listener, stream, task, callers, logged,
                   panicked>>

\* newPassiveSocket, lines 107-113: hand back the error, or print and hand back
\* the socket
newPassiveSocketReturn ==
    /\ ctorPc = "served" /\ ~panicked
    /\ IF serveErr # NoErr
       THEN /\ ctorRet' = [sock |-> FALSE, err |-> serveErr]
            /\ UNCHANGED stdout
       ELSE /\ ctorRet' = [sock |-> TRUE, err |-> NoErr]
            /\ stdout' = stdout \cup {"open"}
    /\ ctorPc' = "done"
    /\ UNCHANGED <<inputs, serveErr, fields, listener, stream, task, callers, logged,
                   panicked>>

\* ---------------------------------------------------- the accept goroutine

\* lines 187-189: set the deadline, which panics on a listener that
\* tls.NewListener made; then a peer connects, or the deadline passes, or
\* Accept fails
acceptAccept ==
    /\ acceptPc = "accept" /\ ~panicked
    /\ IF listener.kind # "tcp"
       THEN /\ panicked' = TRUE
            /\ UNCHANGED <<acceptPc, aConn, aErr, accepts, stream>>
       ELSE /\ accepts' = accepts + 1
            /\ \/ /\ aConn' = listener.kind
                  /\ aErr' = NoErr
                  /\ stream' = "open"
               \/ /\ aErr' \in AcceptErrors
                  /\ UNCHANGED <<aConn, stream>>
            /\ acceptPc' = "store"
            /\ UNCHANGED panicked
    /\ UNCHANGED <<inputs, ctor, fields, listener, tasks, callers, output>>

\* acceptStore without line 194: the error of Accept is not published
acceptStore_dropsErr ==
    /\ acceptPc = "store" /\ ~panicked
    /\ IF aErr # NoErr
       THEN UNCHANGED <<err, conn>>
       ELSE err' = NoErr /\ conn' = aConn
    /\ acceptPc' = "deferred"
    /\ UNCHANGED <<inputs, ctor, port, host, wg, tlsConfig, listener, stream, aConn,
                   aErr, tasks, accepts, callers, output, panicked>>

\* acceptStore with wg.Done() called at the end of the goroutine and not
\* deferred: the return of line 195 leaves without it
acceptStore_returnsEarly ==
    /\ acceptPc = "store" /\ ~panicked
    /\ IF aErr # NoErr
       THEN err' = aErr /\ acceptPc' = "exited" /\ UNCHANGED conn
       ELSE err' = NoErr /\ conn' = aConn /\ acceptPc' = "deferred"
    /\ UNCHANGED <<inputs, ctor, port, host, wg, tlsConfig, listener, stream, aConn,
                   aErr, tasks, accepts, callers, output, panicked>>

\* lines 193-199: publish the error, or the connection
acceptStore ==
    /\ acceptPc = "store" /\ ~panicked
    /\ IF aErr # NoErr
       THEN err' = aErr /\ UNCHANGED conn
       ELSE err' = NoErr /\ conn' = aConn
    /\ acceptPc' = "deferred"
    /\ UNCHANGED <<inputs, ctor, port, host, wg, tlsConfig, listener, stream, aConn,
                   aErr, tasks, accepts, callers, output, panicked>>

\* acceptDone in a goroutine that loops: after wg.Done() it accepts again
acceptDone_acceptsAgain ==
    /\ acceptPc = "deferred" /\ ~panicked
    /\ wg' = wg - 1
    /\ acceptPc' = "accept"
    /\ UNCHANGED <<inputs, ctor, conn, port, host, err, tlsConfig, listener, stream,
                   aConn, aErr, tasks, accepts, callers, output, panicked>>

\* line 191, run as the goroutine returns: wg.Done()
acceptDone ==
    /\ acceptPc = "deferred" /\ ~panicked
    /\ wg' = wg - 1
    /\ acceptPc' = "exited"
    /\ UNCHANGED <<inputs, ctor, conn, port, host, err, tlsConfig, listener, stream,
                   aConn, aErr, tasks, accepts, callers, output, panicked>>

\* ------------------------------------------------- the network connection

\* conn.Read(p) on the connection as it stands: what it may return
StreamRead ==
    IF stream = "open"
    THEN {[n |-> k, err |-> NoErr, host |-> ""] : k \in 1..MaxBuf}
           \cup {[n |-> 0, err |-> "EOF", host |-> ""]}
    ELSE {[n |-> 0, err |-> "use of closed network connection", host |-> ""]}

\* conn.Write(p) on the connection as it stands: what it may return
StreamWrite ==
    IF stream = "open"
    THEN {[n |-> MaxBuf, err |-> NoErr, host |-> ""]}
    ELSE {[n |-> 0, err |-> "use of closed network connection", host |-> ""]}

StreamIO(m) == IF m = "Read" THEN StreamRead ELSE StreamWrite

\* conn.Close() on the connection as it stands: the error it returns
StreamClose == IF stream = "open" THEN NoErr ELSE "use of closed network connection"

\* ----------------------------------------------------------------- callers

ReadWrite == {"Read", "Write"}

\* the constructor has handed its socket to the session layer, and caller c
\* is in no method of it
Free(c) ==
    /\ ctorPc = "done" /\ ctorRet.sock /\ ~panicked
    /\ pc[c] \in {"idle", "returned"}

\* caller c is back in the session layer from method m with the result r
Return(c, m, r) ==
    /\ pc' = [pc EXCEPT ![c] = "returned"]
    /\ call' = [call EXCEPT ![c] = [op |-> m, afterClose |-> FALSE, early |-> FALSE]]
    /\ ret' = [ret EXCEPT ![c] = r]

\* a Close of caller c returns e
CloseReturns(c, e) ==
    /\ Return(c, "Close", [n |-> 0, err |-> e, host |-> ""])
    /\ closed' = TRUE
    /\ closedEarly' = (closedEarly \/ acceptPc = "accept")

\* the session layer calls Read or Write of the socket
Call(c, m) ==
    /\ Free(c)
    /\ call' = [call EXCEPT ![c] =
                    [op |-> m, afterClose |-> closed, early |-> acceptPc = "accept"]]
    /\ ret' = [ret EXCEPT ![c] = NoRet]
    /\ pc' = [pc EXCEPT ![c] = IF kind = "active" THEN "io" ELSE "check"]
    /\ UNCHANGED <<inputs, ctor, fields, listener, stream, task, closed, closedEarly,
                   output, panicked>>

\* Host and Port of either socket, lines 67-73 and 116-122: one read of a
\* field that nothing writes once the constructor has returned
HostPort(c, m) ==
    /\ Free(c)
    /\ Return(c, m, IF m = "Host"
                    THEN [n |-> 0, err |-> NoErr, host |-> host]
                    ELSE [n |-> port, err |-> NoErr, host |-> ""])
    /\ UNCHANGED <<inputs, ctor, fields, listener, stream, task, closed, closedEarly,
                   output, panicked>>

\* ftpActiveSocket.Read and Write, lines 75-81
activeIO(c) ==
    /\ kind = "active" /\ pc[c] = "io" /\ ~panicked
    /\ \E r \in StreamIO(call[c].op) : Return(c, call[c].op, r)
    /\ UNCHANGED <<inputs, ctor, fields, listener, stream, task, closed, closedEarly,
                   output, panicked>>

\* ftpActiveSocket.Close, lines 83-86
activeClose(c) ==
    /\ kind = "active" /\ Free(c)
    /\ stdout' = stdout \cup {"close"}
    /\ stream' = "closed"
    /\ CloseReturns(c, StreamClose)
    /\ UNCHANGED <<inputs, ctor, fields, listener, task, logged, panicked>>

\* waitForOpenSocket, lines 206-208: the connection is there already?
waitForOpenSocket(c) ==
    /\ kind = "passive" /\ pc[c] = "check" /\ ~panicked
    /\ pc' = [pc EXCEPT ![c] = IF conn # "nil" THEN "io" ELSE "wait"]
    /\ UNCHANGED <<inputs, ctor, fields, listener, stream, task, call, ret, closed,
                   closedEarly, output, panicked>>

\* wgWait on a gate that lets one waiter through per signal, as a receive
\* from a channel the goroutine sends on once would
wgWait_takesSignal(c) ==
    /\ kind = "passive" /\ pc[c] = "wait" /\ ~panicked
    /\ wg = 0
    /\ wg' = 1
    /\ IF err # NoErr
       THEN Return(c, call[c].op, [n |-> 0, err |-> err, host |-> ""])
       ELSE pc' = [pc EXCEPT ![c] = "io"] /\ UNCHANGED <<call, ret>>
    /\ UNCHANGED <<inputs, ctor, conn, port, host, err, tlsConfig, listener, stream,
                   task, closed, closedEarly, output, panicked>>

\* wgWait without the test of lines 127 and 137: the error is not looked at
wgWait_ignoresErr(c) ==
    /\ kind = "passive" /\ pc[c] = "wait" /\ ~panicked
    /\ wg = 0
    /\ pc' = [pc EXCEPT ![c] = "io"]
    /\ UNCHANGED <<inputs, ctor, fields, listener, stream, task, call, ret, closed,
                   closedEarly, output, panicked>>

\* waitForOpenSocket, lines 210-212, and lines 127-129 or 137-139 of its
\* caller: wait for the goroutine, then give up on its error
wgWait(c) ==
    /\ kind = "passive" /\ pc[c] = "wait" /\ ~panicked
    /\ wg = 0
    /\ IF err # NoErr
       THEN Return(c, call[c].op, [n |-> 0, err |-> err, host |-> ""])
       ELSE pc' = [pc EXCEPT ![c] = "io"] /\ UNCHANGED <<call, ret>>
    /\ UNCHANGED <<inputs, ctor, fields, listener, stream, task, closed, closedEarly,
                   output, panicked>>

\* ftpPassiveSocket.Read and Write, lines 131 and 141: socket.conn.Read(p),
\* which panics on a nil socket.conn
passiveIO(c) ==
    /\ kind = "passive" /\ pc[c] = "io" /\ ~panicked
    /\ IF conn = "nil"
       THEN panicked' = TRUE /\ UNCHANGED <<pc, call, ret>>
       ELSE /\ \E r \in StreamIO(call[c].op) : Return(c, call[c].op, r)
            /\ UNCHANGED panicked
    /\ UNCHANGED <<inputs, ctor, fields, listener, stream, task, closed, closedEarly,
                   output>>

\* passiveClose that hands back socket.err when there is nothing to close
passiveClose_reportsErr(c) ==
    /\ kind = "passive" /\ Free(c)
    /\ IF conn # "nil"
       THEN /\ stdout' = stdout \cup {"close"}
            /\ pc' = [pc EXCEPT ![c] = "closeConn"]
            /\ call' = [call EXCEPT ![c] = [NoCall EXCEPT !.op = "Close"]]
            /\ ret' = [ret EXCEPT ![c] = NoRet]
            /\ UNCHANGED <<closed, closedEarly>>
       ELSE /\ CloseReturns(c, err)
            /\ UNCHANGED stdout
    /\ UNCHANGED <<inputs, ctor, fields, listener, stream, task, logged, panicked>>

\* ftpPassiveSocket.Close, lines 144-150: nothing to close, or go and close
passiveClose(c) ==
    /\ kind = "passive" /\ Free(c)
    /\ IF conn # "nil"
       THEN /\ stdout' = stdout \cup {"close"}
            /\ pc' = [pc EXCEPT ![c] = "closeConn"]
            /\ call' = [call EXCEPT ![c] = [NoCall EXCEPT !.op = "Close"]]
            /\ ret' = [ret EXCEPT ![c] = NoRet]
            /\ UNCHANGED <<closed, closedEarly>>
       ELSE /\ CloseReturns(c, NoErr)
            /\ UNCHANGED stdout
    /\ UNCHANGED <<inputs, ctor, fields, listener, stream, task, logged, panicked>>

\* ftpPassiveSocket.Close, line 147: socket.conn.Close()
passiveCloseConn(c) ==
    /\ kind = "passive" /\ pc[c] = "closeConn" /\ ~panicked
    /\ stream' = "closed"
    /\ CloseReturns(c, StreamClose)
    /\ UNCHANGED <<inputs, ctor, fields, listener, task, output, panicked>>

\* ------------------------------------------------------------ specification

Next ==
    \/ newActiveSocket
    \/ newPassiveSocket
    \/ GoListenAndServe
    \/ newPassiveSocketReturn
    \/ acceptAccept
    \/ acceptStore
    \/ acceptDone
    \/ \E c \in Callers, m \in ReadWrite : Call(c, m)
    \/ \E c \in Callers, m \in {"Host", "Port"} : HostPort(c, m)
    \/ \E c \in Callers : activeIO(c)
    \/ \E c \in Callers : activeClose(c)
    \/ \E c \in Callers : waitForOpenSocket(c)
    \/ \E c \in Callers : wgWait(c)
    \/ \E c \in Callers : passiveIO(c)
    \/ \E c \in Callers : passiveClose(c)
    \/ \E c \in Callers : passiveCloseConn(c)

Spec == Init /\ [][Next]_vars

\* the scheduler runs a goroutine that can run: the accept goroutine takes its
\* next step (Accept returns by the deadline of line 187 at the latest), and
\* a caller whose wg.Wait() can return does return
FairSpec ==
    /\ Spec
    /\ WF_vars(acceptAccept)
    /\ WF_vars(acceptStore)
    /\ WF_vars(acceptDone)
    /\ \A c \in Callers : WF_vars(wgWait(c))

\* ------------------------------------------------------ the readiness gate

\* the gate is the WaitGroup: resolved once the goroutine's wg.Done() has run
Resolved == tasks > 0 /\ wg = 0
Pending == tasks > 0 /\ wg > 0
Ready == Resolved /\ err = NoErr
Failed == Resolved /\ err # NoErr

\* the constructor has handed a passive socket to the session layer
PassiveBuilt == kind = "passive" /\ ctorPc = "done" /\ ctorRet.sock

\* caller c is back from a call of method m
Returned(c, m) == pc[c] = "returned" /\ call[c].op = m

\* ------------------------------------------------------------------ claims

\* C1: a Read or Write that was called on a passive socket before
\* listener.Accept had returned does not return until the accept goroutine
\* has finished, that is until its wg.Done() has run.
C1_ReturnsAfterResolution ==
    [][\A c \in Callers :
         (kind = "passive" /\ call[c].op \in ReadWrite /\ call[c].early
            /\ pc[c] # "returned" /\ pc'[c] = "returned")
         => acceptPc = "exited"]_vars

\* what holds of every state once Accept has failed (the state part of C2)
C2_FailedInv ==
    /\ accepts <= 1
    /\ aErr # NoErr =>
         /\ ~panicked
         /\ conn = "nil"
         /\ acceptPc \in {"deferred", "exited"} => err = aErr
         /\ \A c \in Callers :
              (pc[c] = "returned" /\ call[c].op \in ReadWrite)
              => ret[c] = [n |-> 0, err |-> aErr, host |-> ""]

\* C2: once Accept has failed, the failure is terminal: Accept is not called
\* again, socket.err holds the error Accept produced from the moment it is
\* published and never changes, no call panics, and every Read and Write
\* that returns has returned 0 bytes and that error.
C2_FailureIsTerminal ==
    /\ []C2_FailedInv
    /\ [][aErr # NoErr => (aErr' = aErr /\ accepts' = accepts
                             /\ (err # NoErr => err' = err))]_vars

\* C2 witness: Accept has failed, and every caller is back from a Read or a
\* Write with that error, one of them from a Read and one from a Write.
C2_Witness ==
    /\ Failed
    /\ \A c \in Callers : pc[c] = "returned" /\ call[c].op \in ReadWrite
                            /\ ret[c].err = aErr
    /\ \E c \in Callers : call[c].op = "Read"
    /\ \E c \in Callers : call[c].op = "Write"

\* what holds of the gate in every state (the state part of C3)
C3_GateInv ==
    /\ tasks <= 1 /\ accepts <= 1 /\ wg \in {0, 1}
    /\ PassiveBuilt => tasks = 1
    /\ kind = "active" => tasks = 0
    /\ Pending <=> (tasks = 1 /\ acceptPc # "exited")
    /\ Resolved => (acceptPc = "exited" /\ accepts = 1)
    /\ Ready => (conn # "nil" /\ conn = aConn)
    /\ Failed => (conn = "nil" /\ err = aErr)

\* C3: a passive socket has exactly one accept goroutine, which calls Accept
\* at most once; the gate moves at most once, from Pending to Ready with the
\* accepted connection or to Failed with the error; once it has moved the
\* goroutine has exited and no action changes socket.wg, socket.conn or
\* socket.err.
C3_GateMovesOnce ==
    /\ []C3_GateInv
    /\ [][Resolved => UNCHANGED <<wg, conn, err, acceptPc, tasks, accepts>>]_vars

\* C3 witness: the gate is Ready, and since then a caller has read from the
\* connection and another has closed it.
C3_Witness ==
    /\ Ready
    /\ \E c \in Callers : Returned(c, "Read") /\ ret[c].n > 0
    /\ \E c \in Callers : Returned(c, "Close")

\* C4: a Read or Write that is called after a Close has returned does not
\* return successfully.
C4_NoSuccessAfterClose ==
    [][\A c \in Callers :
         (call[c].afterClose /\ pc[c] # "returned" /\ pc'[c] = "returned")
         => ret'[c].err # NoErr]_vars

C6_LateConnDiscarded ==
    closedEarly =>
      /\ ~panicked
      /\ \A c \in Callers : Returned(c, "Close") /\ aConn = "nil" => ret[c].err = NoErr
      /\ ~(conn # "nil" /\ stream = "open")

\* C7: when newPassiveSocket is given a TLS configuration the listener is the
\* one tls.NewListener made, and the connection the gate exposes as Ready is
\* a TLS connection.
C7_TlsStream ==
    (kind = "passive" /\ tlsConfing # "nil") =>
      /\ listener.kind \in {"none", "tls"}
      /\ Ready => conn = "tls"

\* what holds of socket.port in every state (the state part of C8)
C8_PortInv ==
    PassiveBuilt =>
      /\ port = listener.port
      /\ IF reqPort = 0 THEN port # 0 ELSE port = reqPort
      /\ \A c \in Callers : Returned(c, "Port") => ret[c].n = listener.port

\* C8: Port() of a passive socket reports the port the listener is bound to,
\* which is not 0 when port 0 was asked for and is the port asked for
\* otherwise; once the constructor has returned no action changes
\* socket.port.
C8_BoundPort ==
    /\ []C8_PortInv
    /\ [][PassiveBuilt => port' = port]_vars

\* C8 witness: port 0 was asked for; every caller is back from Port() with the
\* same nonzero port, after the gate has resolved and a Close has returned.
C8_Witness ==
    /\ PassiveBuilt /\ reqPort = 0 /\ Resolved /\ closed
    /\ \A c \in Callers : Returned(c, "Port") /\ ret[c].n = port /\ ret[c].n # 0

\* C9: a constructor that has returned has handed back either a usable socket
\* and no error, or no socket and the error; a passive construction that
\* fails has started no accept goroutine, and an active socket handed back
\* holds its established connection.
C9_AllOrNothing ==
    /\ serveErr # NoErr => tasks = 0
    /\ ctorPc # "done" => ~ctorRet.sock
    /\ ctorPc = "done" =>
         IF ctorRet.sock
         THEN /\ ctorRet.err = NoErr
              /\ host = reqHost
              /\ IF kind = "active"
                 THEN conn # "nil" /\ stream # "none" /\ port = reqPort
                 ELSE tasks = 1 /\ listener.kind # "none"
         ELSE /\ ctorRet.err # NoErr
              /\ tasks = 0 /\ acceptPc = "none"
              /\ conn = "nil" /\ stream = "none"
              /\ \A c \in Callers : pc[c] = "idle"

\* C9 witness: newPassiveSocket has returned a listen error and no socket.
C9_Witness ==
    /\ kind = "passive" /\ ctorPc = "done"
    /\ ~ctorRet.sock /\ ctorRet.err = "listen error"

\* C10: newPassiveSocket does not wait for the accept goroutine before it
\* returns, and Host() and Port() of the socket it returned are never made
\* to wait, whatever the state of the gate.
C10_NoWaitForAccept ==
    /\ (ctorPc = "served" /\ ~panicked) => ENABLED newPassiveSocketReturn
    /\ \A c \in Callers :
         (PassiveBuilt /\ ~panicked /\ pc[c] \in {"idle", "returned"})
         => (ENABLED HostPort(c, "Host") /\ ENABLED HostPort(c, "Port"))

\* C10 witness: newPassiveSocket has returned, the goroutine is still in
\* Accept, and callers are back from Host() and Port() with the host and
\* the bound port.
C10_Witness ==
    /\ PassiveBuilt /\ Pending /\ acceptPc = "accept"
    /\ \E c \in Callers : Returned(c, "Host") /\ ret[c].host = reqHost
    /\ \E c \in Callers : Returned(c, "Port") /\ ret[c].n = listener.port

\* C11: Close is idempotent on every data socket: every Close returns the
\* success the first one returned, also on a socket whose connection was
\* established.
C11_CloseIdempotent ==
    \A c \in Callers : Returned(c, "Close") => ret[c].err = NoErr

\* C12: under a fair scheduler a passive socket does not stay Pending: the
\* accept goroutine resolves the gate and exits, and every Read or Write that
\* waits in wg.Wait() stops waiting.
C12_GateResolves ==
    /\ Pending ~> (Resolved /\ acceptPc = "exited")
    /\ \A c \in Callers : (pc[c] = "wait") ~> (pc[c] # "wait")

\* C12 witness: the deadline has passed with no peer, the goroutine has
\* resolved the gate to Failed and exited, and a caller that was called while
\* the goroutine was in Accept is past its wg.Wait() with the timeout.
C12_Witness ==
    /\ Failed /\ aErr = "i/o timeout" /\ acceptPc = "exited"
    /\ \E c \in Callers : Returned(c, "Read") /\ ret[c].err = "i/o timeout"
    /\ \E c \in Callers : pc[c] = "wait" /\ call[c].early

\* C13: a caller that has found socket.conn set (Read and Write past
\* waitForOpenSocket, Close past the test of line 145) has read it after the
\* accept goroutine signalled resolution with wg.Done(), never between the
\* goroutine's write and its signal.
C13_ReadsAfterResolution ==
    \A c \in Callers :
      (kind = "passive" /\ pc[c] \in {"io", "closeConn"}) => acceptPc = "exited"

\* a socket that a constructor has handed back has been recorded by the
\* Logger (the state part of C14)
C14_OpenLogged == (ctorPc = "done" /\ ctorRet.sock) => logged >= 1

\* C14: the Logger is called at least once when a socket is opened and at
\* least once by every Close, for active and passive sockets.
C14_SinkRecords ==
    /\ []C14_OpenLogged
    /\ [][(\E c \in Callers : activeClose(c) \/ passiveClose(c))
            => logged' > logged]_vars

\* a Read or Write of caller c has ended with the error of Accept
GotError(c) ==
    pc[c] = "returned" /\ call[c].op \in ReadWrite /\ ret[c].err \in AcceptErrors

\* a Read or Write of caller c on a passive socket has gone on to the
\* connection
GotStream(c) ==
    /\ kind = "passive" /\ call[c].op \in ReadWrite
    /\ pc[c] = "io" \/ (pc[c] = "returned" /\ ret[c].err \notin AcceptErrors)

\* C15: the one resolution of the gate releases every Read and Write that
\* waits in wg.Wait(), and none waits there once the goroutine has signalled;
\* all of them see the same outcome: all go on to the one accepted
\* connection, or all return the one error of Accept.
C15_OneResolutionForAll ==
    \A c \in Callers :
      /\ (pc[c] = "wait" /\ acceptPc = "exited" /\ ~panicked) => ENABLED wgWait(c)
      /\ GotError(c) => (Failed /\ ret[c].err = err /\ ret[c].n = 0)
      /\ GotStream(c) => (conn # "nil" /\ conn = aConn /\ err = NoErr)
      /\ \A d \in Callers : ~(GotError(c) /\ GotStream(d))

\* C15 witness: the gate is Ready and every caller, called while the
\* goroutine was in Accept, is in wg.Wait(), free to go on.
C15_Witness ==
    /\ Ready
    /\ \A c \in Callers : pc[c] = "wait" /\ call[c].early /\ ENABLED wgWait(c)

\* C16: a Read or Write of a passive socket reaches socket.conn.Read or
\* socket.conn.Write only with socket.conn set, so that it never panics on a
\* nil connection; when the gate is Failed no caller is at, or has been
\* through, the connection.
C16_NoNilStream ==
    /\ ~panicked
    /\ \A c \in Callers :
         /\ (kind = "passive" /\ pc[c] = "io") => conn # "nil"
         /\ Failed => ~GotStream(c)
    /\ Failed => stream = "none"

\* C16 witness: the gate is Ready and every caller is back from a Read or a
\* Write that moved bytes over the accepted connection.
C16_Witness ==
    /\ Ready /\ stream = "open"
    /\ \A c \in Callers : pc[c] = "returned" /\ call[c].op \in ReadWrite /\ ret[c].n > 0
    /\ \E c \in Callers : call[c].op = "Write"

\* C17 as first stated: socket.conn and socket.err are never both set; while
\* the gate is Pending both are unset; once the goroutine has signalled
\* resolution exactly one of them is set.
C17_FieldsFollowGate ==
    kind = "passive" =>
      /\ ~(conn # "nil" /\ err # NoErr)
      /\ Pending => (conn = "nil" /\ err = NoErr)
      /\ Resolved => ((conn # "nil") # (err # NoErr))

\* C17: socket.conn and socket.err are never both set; both are unset until
\* the accept goroutine writes its result (line 194 or 199), which it does
\* while the gate is still Pending; from that write on, before and after the
\* goroutine has signalled resolution, exactly one of them is set.
C17_FieldsFollowWrite ==
    kind = "passive" =>
      /\ ~(conn # "nil" /\ err # NoErr)
      /\ acceptPc \in {"none", "accept", "store"} => (conn = "nil" /\ err = NoErr)
      /\ acceptPc \in {"deferred", "exited"} => ((conn # "nil") # (err # NoErr))
      /\ Resolved => acceptPc = "exited"

\* C17 witness: the goroutine has stored the accepted connection and has not
\* yet called wg.Done(): the gate is Pending with socket.conn set.
C17_Witness ==
    /\ PassiveBuilt /\ Pending /\ acceptPc = "deferred"
    /\ conn # "nil" /\ err = NoErr

====
